---------------------------- MODULE Spec2Model ----------------------------
(***************************************************************************)
(* A model of four parts of the beacon-chain node:                         *)
(*   - the blob codec        (package shared:     Serialize / Deserialize) *)
(*   - the validator shuffle (package utils:      ShuffleIndices)          *)
(*   - the chain service     (package blockchain: ChainService)            *)
(*   - the service registry  (package shared:     ServiceRegistry)         *)
(* Each part has its own specification (SpecCodec, SpecShuffle, SpecChain, *)
(* FairSpecChain, SpecRegistry); the variables of the other parts stay at  *)
(* their initial values.                                                   *)
(***************************************************************************)
EXTENDS Integers, Sequences, FiniteSets, TLC

VARIABLES
    \* ---- blob codec ----
    cpc,            \* position of the codec caller: "start", "serialized", "deserialized", "decoded"
    rawBlobs,       \* argument of Serialize: a sequence of [data, skipEvmExecution]
    serialized,     \* result of Serialize: [data, err, totalDataSize]
    data,           \* argument of Deserialize: a byte sequence
    deserialized,   \* result of Deserialize: [blobs, err]
    \* ---- ShuffleIndices, one entry per caller ----
    spc,            \* position of the call: "idle", "called", "sweep", "done"
    seed,           \* argument seed
    validatorCount, \* argument validatorCount
    validatorList,  \* local validatorList (NilList before it is made)
    si,             \* local i of the outer loop
    sj,             \* local j of the inner loop
    sret,           \* returned pair [list, err]
    ref,            \* one earlier completed call, remembered: [seed, validatorCount, ret]
    \* ---- ChainService ----
    ctxDone,            \* c.ctx has been cancelled
    chain,              \* c.chain: "nil" or "set"
    latestBeaconBlock,  \* c.latestBeaconBlock: the channel
    wpc,                \* per updateChainState goroutine: "none", "select", "exited"
    bpc,                \* per ProcessBlock caller: "idle", "sending", "returned"
    block,              \* per ProcessBlock caller: the block it passes
    submitted,          \* the blocks passed to ProcessBlock, in call order
    processed,          \* the blocks the workers have processed, in order
    \* ---- ServiceRegistry ----
    services,       \* registry.services: service type -> registered service, or NoService
    serviceTypes,   \* registry.serviceTypes: the registered types, in registration order
    regArg,         \* argument of the last RegisterService call
    regRet          \* error returned by the last RegisterService call

codecVars == <<cpc, rawBlobs, serialized, data, deserialized>>
shuffleVars == <<spc, seed, validatorCount, validatorList, si, sj, sret, ref>>

chainVars == <<ctxDone, chain, latestBeaconBlock, wpc, bpc, block, submitted, processed>>

registryVars == <<services, serviceTypes, regArg, regRet>>

vars == <<codecVars, shuffleVars, chainVars, registryVars>>

-----------------------------------------------------------------------------
(* Bytes and bit operations on them.                                       *)

RECURSIVE BitAnd(_, _)
BitAnd(a, b) ==
    IF a = 0 \/ b = 0 THEN 0
    ELSE (IF a % 2 = 1 /\ b % 2 = 1 THEN 1 ELSE 0) + 2 * BitAnd(a \div 2, b \div 2)

RECURSIVE BitOr(_, _)
BitOr(a, b) ==
    IF a = 0 THEN b
    ELSE IF b = 0 THEN a
    ELSE (IF a % 2 = 1 \/ b % 2 = 1 THEN 1 ELSE 0) + 2 * BitOr(a \div 2, b \div 2)

\* x >> n on a byte
ShiftRight(x, n) == x \div (2 ^ n)

\* byte(x): conversion of an int to a byte keeps the low 8 bits
ToByte(x) == x % 256

\* make([]byte, n): n zero bytes
MakeBytes(n) == [k \in 1..n |-> 0]

\* Go's s[lo:hi] on a sequence (0-based, hi exclusive)
Slice(s, lo, hi) == SubSeq(s, lo + 1, hi)

-----------------------------------------------------------------------------
(* Blob codec: the package variables.                                      *)

chunkSize == 32
indicatorSize == 1
chunkDataSize == chunkSize - indicatorSize
skipEvmBits == 128
dataLengthBits == 31

\* The error value nil.
Nil == "nil"

\* getNumChunks: math.Ceil(float64(dataSize) / float64(chunkDataSize)); both
\* conversions are exact for the sizes of the model, so the result is the
\* integer ceiling of the quotient.
GetNumChunksOffByOne(dataSize) == dataSize \div chunkDataSize + 1
GetNumChunksAtLeastOne(dataSize) ==
    IF dataSize = 0 THEN 1 ELSE (dataSize + chunkDataSize - 1) \div chunkDataSize
getNumChunks(dataSize) ==
    IF dataSize % chunkDataSize = 0
    THEN dataSize \div chunkDataSize
    ELSE dataSize \div chunkDataSize + 1

getSerializedDatasize(dataSize) == getNumChunks(dataSize) * chunkSize

GetTerminalLengthByModulo(dataSize) == dataSize % chunkDataSize
getTerminalLength(dataSize) ==
    LET numChunks == getNumChunks(dataSize)
    IN  dataSize - ((numChunks - 1) * chunkDataSize)

\* The body of the inner loop of Serialize: the bytes appended for chunk j
\* (0-based) of rawBlob.
SerializeChunk(rawBlob, j, numChunks) ==
    LET nonTerminal == j # numChunks - 1
        terminalLength == IF nonTerminal THEN chunkDataSize
                          ELSE getTerminalLength(Len(rawBlob.data))
        indicatorByte == IF nonTerminal THEN ToByte(0)
                         ELSE IF rawBlob.skipEvmExecution
                              THEN BitOr(ToByte(terminalLength), skipEvmBits)
                              ELSE ToByte(terminalLength)
        chunkStart == j * chunkDataSize
        chunkEnd == chunkStart + terminalLength
        blobSlice == Slice(rawBlob.data, chunkStart, chunkEnd)
        fillerBytes == IF terminalLength # chunkDataSize
                       THEN MakeBytes(numChunks * chunkDataSize - Len(rawBlob.data))
                       ELSE <<>>
    IN  <<indicatorByte>> \o blobSlice \o fillerBytes

\* for j := 0; j < numChunks; j++ { ... }
RECURSIVE SerializeChunksFrom(_, _, _)
SerializeChunksFrom(rawBlob, j, numChunks) ==
    IF j < numChunks
    THEN SerializeChunk(rawBlob, j, numChunks) \o SerializeChunksFrom(rawBlob, j + 1, numChunks)
    ELSE <<>>

\* for i := 0; i < len(rawBlobs); i++ { ... }   (second loop, i is 1-based here)
RECURSIVE SerializeBlobsFrom(_, _)
SerializeBlobsFrom(blobs, i) ==
    IF i <= Len(blobs)
    THEN SerializeChunksFrom(blobs[i], 0, getNumChunks(Len(blobs[i].data)))
         \o SerializeBlobsFrom(blobs, i + 1)
    ELSE <<>>

\* first loop of Serialize: the capacity allocated for the result
RECURSIVE TotalDataSizeFrom(_, _)
TotalDataSizeFrom(blobs, i) ==
    IF i <= Len(blobs)
    THEN getSerializedDatasize(Len(blobs[i].data)) + TotalDataSizeFrom(blobs, i + 1)
    ELSE 0

Serialize(blobs) ==
    [data |-> SerializeBlobsFrom(blobs, 1),
     err |-> Nil,
     totalDataSize |-> TotalDataSizeFrom(blobs, 1)]

\* isSkipEvm: indicator&skipEvmBits>>7 == 1. In Go & and >> have the same
\* precedence and associate to the left: (indicator & skipEvmBits) >> 7.
IsSkipEvmShiftFirst(indicator) == BitAnd(indicator, ShiftRight(skipEvmBits, 7)) = 1
isSkipEvm(indicator) == ShiftRight(BitAnd(indicator, skipEvmBits), 7) = 1

GetDatabyteLengthSixBits(indicator) == BitAnd(indicator, 2 * dataLengthBits + 1)
getDatabyteLength(indicator) == BitAnd(indicator, dataLengthBits)

\* First pass of Deserialize, from chunk i (0-based) with the descriptors
\* found so far and the running count of non-terminal chunks.
RECURSIVE ScanChunks(_, _, _, _, _)
ScanChunks(d, i, chunksNumber, serializedBlobs, numPartitions) ==
    IF i < chunksNumber
    THEN LET indicatorIndex == i * chunkSize
             databyteLength == getDatabyteLength(d[indicatorIndex + 1])
         IN  IF databyteLength = 0
             THEN ScanChunks(d, i + 1, chunksNumber, serializedBlobs, numPartitions + 1)
             ELSE ScanChunks(d, i + 1, chunksNumber,
                             Append(serializedBlobs,
                                    [numNonTerminalChunks |-> numPartitions,
                                     terminalLength |-> databyteLength]),
                             0)
    ELSE serializedBlobs

\* for chunk := 0; chunk < numNonTerminalChunks; chunk++: the payloads of the
\* non-terminal chunks starting at currentByte
RECURSIVE NonTerminalData(_, _, _, _)
NonTerminalData(d, currentByte, chunk, numNonTerminalChunks) ==
    IF chunk < numNonTerminalChunks
    THEN Slice(d, currentByte + 1, currentByte + 32)
         \o NonTerminalData(d, currentByte + 32, chunk + 1, numNonTerminalChunks)
    ELSE <<>>

\* Second pass of Deserialize, from descriptor i (1-based here) at currentByte.
RECURSIVE BuildBlobs(_, _, _, _)
BuildBlobs(d, serializedBlobs, i, currentByte) ==
    IF i <= Len(serializedBlobs)
    THEN LET numNonTerminalChunks == serializedBlobs[i].numNonTerminalChunks
             terminalLength == serializedBlobs[i].terminalLength
             head == NonTerminalData(d, currentByte, 0, numNonTerminalChunks)
             terminalByte == currentByte + 32 * numNonTerminalChunks
             blob == [data |-> head \o Slice(d, terminalByte + 1,
                                             terminalByte + terminalLength + 1),
                      skipEvmExecution |-> isSkipEvm(d[terminalByte + 1])]
         IN  <<blob>> \o BuildBlobs(d, serializedBlobs, i + 1, terminalByte + 32)
    ELSE <<>>

\* The index ranges [lo, hi) of data that the first pass reads: data[i*32]
\* for every chunk i.
FirstPassReads(chunksNumber) ==
    {<<i * chunkSize, i * chunkSize + 1>> : i \in 0..(chunksNumber - 1)}

\* The index ranges [lo, hi) of data that the second pass reads from
\* descriptor i (1-based here) at currentByte: data[currentByte+1 :
\* currentByte+32] for each non-terminal chunk, then data[currentByte] and
\* data[currentByte+1 : currentByte+terminalLength+1] of the terminal chunk.
RECURSIVE SecondPassReads(_, _, _)
SecondPassReads(serializedBlobs, i, currentByte) ==
    IF i <= Len(serializedBlobs)
    THEN LET numNonTerminalChunks == serializedBlobs[i].numNonTerminalChunks
             terminalLength == serializedBlobs[i].terminalLength
             terminalByte == currentByte + 32 * numNonTerminalChunks
         IN  {<<currentByte + 32 * chunk + 1, currentByte + 32 * chunk + 32>> :
                 chunk \in 0..(numNonTerminalChunks - 1)}
             \cup {<<terminalByte, terminalByte + 1>>,
                   <<terminalByte + 1, terminalByte + terminalLength + 1>>}
             \cup SecondPassReads(serializedBlobs, i + 1, terminalByte + 32)
    ELSE {}

\* currentByte when the second pass ends: 32 for every chunk it consumed
RECURSIVE FinalCurrentByte(_, _, _)
FinalCurrentByte(serializedBlobs, i, currentByte) ==
    IF i <= Len(serializedBlobs)
    THEN FinalCurrentByte(serializedBlobs, i + 1,
                          currentByte + 32 * serializedBlobs[i].numNonTerminalChunks + 32)
    ELSE currentByte

\* an index or slice expression outside the slice makes the Go runtime panic
Panic == "panic: index out of range"
InRange(d, reads) == \A r \in reads : r[1] >= 0 /\ r[1] <= r[2] /\ r[2] <= Len(d)

\* Deserialize with the number of chunks it takes the stream to have.
DeserializeChunks(d, chunksNumber) ==
    IF ~InRange(d, FirstPassReads(chunksNumber))
    THEN [blobs |-> <<>>, err |-> Panic]
    ELSE LET serializedBlobs == ScanChunks(d, 0, chunksNumber, <<>>, 0)
         IN  IF ~InRange(d, SecondPassReads(serializedBlobs, 1, 0))
             THEN [blobs |-> <<>>, err |-> Panic]
             ELSE [blobs |-> BuildBlobs(d, serializedBlobs, 1, 0), err |-> Nil]

\* chunksNumber := len(data) / int(chunkSize)
DeserializeRoundingUp(d) == DeserializeChunks(d, (Len(d) + chunkSize - 1) \div chunkSize)
Deserialize(d) == DeserializeChunks(d, Len(d) \div chunkSize)

-----------------------------------------------------------------------------
(* The inputs of the codec.                                                *)

\* most blobs in one Serialize call
MaxBlobs == 2
\* most bytes appended to a chunk stream before it is given to Deserialize
MaxExtra == 2
\* most chunks cut off the end of a chunk stream before it is given to Deserialize
MaxDrop == 1

\* most chunks in a chunk stream that did not come from Serialize
MaxChunks == 3

\* lengths of blob data: around every multiple of chunkDataSize up to two chunks
DataLens == {0, 1, 4, 30, 31, 32, 35, 62, 63}

\* data bytes: byte k (0-based) of a blob is (base + step * k) mod 256
Patterns == {<<65, 0>>, <<200, 1>>}

MakeData(len, pat) == [k \in 1..len |-> (pat[1] + pat[2] * (k - 1)) % 256]

RawBlobs == {[data |-> MakeData(len, pat), skipEvmExecution |-> skip] :
                len \in DataLens, pat \in Patterns, skip \in BOOLEAN}

BlobSeqs == UNION {[1..n -> RawBlobs] : n \in 0..MaxBlobs}

\* indicator bytes of a received chunk: low 5 bits zero or not, with and
\* without bits 5 and 6 (0x60) and bit 7 (0x80)
Indicators == {0, 96, 128, 3, 99, 131, 31, 255}

\* chunk c (0-based) of a received stream: its indicator and 31 payload bytes
RawChunk(indicator, c) == <<indicator>> \o [k \in 1..31 |-> (c * 31 + k) % 256]

RECURSIVE RawStreamFrom(_, _)
RawStreamFrom(indicators, c) ==
    IF c < Len(indicators)
    THEN RawChunk(indicators[c + 1], c) \o RawStreamFrom(indicators, c + 1)
    ELSE <<>>

IndicatorSeqs == UNION {[1..n -> Indicators] : n \in 0..MaxChunks}

NoResult == [err |-> "none"]

CodecIdle ==
    /\ cpc = "start"
    /\ rawBlobs = <<>>
    /\ serialized = NoResult
    /\ data = <<>>
    /\ deserialized = NoResult

InitCodec ==
    /\ cpc = "start"
    /\ rawBlobs \in BlobSeqs
    /\ serialized = NoResult
    /\ data = <<>>
    /\ deserialized = NoResult

CallSerialize ==
    /\ cpc = "start"
    /\ serialized' = Serialize(rawBlobs)
    /\ cpc' = "serialized"
    /\ UNCHANGED <<rawBlobs, data, deserialized>>
    /\ UNCHANGED <<shuffleVars, chainVars, registryVars>>

\* Deserialize is given the stream Serialize produced followed by `extra` bytes.
CallDeserialize ==
    /\ cpc = "serialized"
    /\ \E extra \in 0..MaxExtra :
          /\ data' = serialized.data \o [k \in 1..extra |-> 4]
          /\ deserialized' = Deserialize(data')
    /\ cpc' = "deserialized"
    /\ UNCHANGED <<rawBlobs, serialized>>
    /\ UNCHANGED <<shuffleVars, chainVars, registryVars>>

\* Deserialize is given the stream Serialize produced with its last `drop`
\* chunks cut off: a stream that lost its end.
CallDeserializeTruncated ==
    /\ cpc = "serialized"
    /\ \E drop \in 1..MaxDrop :
          /\ Len(serialized.data) >= drop * chunkSize
          /\ data' = SubSeq(serialized.data, 1, Len(serialized.data) - drop * chunkSize)
          /\ deserialized' = Deserialize(data')
    /\ cpc' = "deserialized"
    /\ UNCHANGED <<rawBlobs, serialized>>
    /\ UNCHANGED <<shuffleVars, chainVars, registryVars>>

\* Deserialize is given a stream that did not come from Serialize: chunks with
\* any indicators, followed by `extra` bytes. The caller has no blobs of its own.
CallDeserializeRaw ==
    /\ cpc = "start"
    /\ rawBlobs = <<>>
    /\ \E indicators \in IndicatorSeqs, extra \in 0..MaxExtra :
          /\ data' = RawStreamFrom(indicators, 0) \o [k \in 1..extra |-> 4]
          /\ deserialized' = Deserialize(data')
    /\ cpc' = "decoded"
    /\ UNCHANGED <<rawBlobs, serialized>>
    /\ UNCHANGED <<shuffleVars, chainVars, registryVars>>

NextCodec ==
    CallSerialize \/ CallDeserialize \/ CallDeserializeTruncated \/ CallDeserializeRaw

-----------------------------------------------------------------------------
(* ShuffleIndices.                                                         *)

\* params.MaxValidators, scaled down: the shuffle does validatorCount - 1
\* rounds of ten swaps, and the model runs every one of them.
MaxValidators == 4

\* the goroutines calling ShuffleIndices
Callers == {1, 2}

\* the seeds the callers pass
Seeds == {1, 2}

\* the validator counts the callers pass: every accepted count and the first
\* rejected one
Counts == 0..(MaxValidators + 1)

\* blake2b.Sum256(seed[:]): a 32-byte digest that depends on the seed alone.
\* The digest function is a library outside the repository; the model uses a
\* fixed table with one digest per seed, whose 3-byte windows have sums
\* below and above 255.
Sum256(s) == [k \in 1..32 |-> (s * 89 + (k - 1) * 37 * s + 11) % 256]

NilList == <<-1>>
ShuffleError == "Validator count has exceeded MaxValidator Count"

\* validatorCount > params.MaxValidators
ExceedsMaxOffByOne(count) == count > MaxValidators + 1
ExceedsMax(count) == count > MaxValidators

\* make([]int, validatorCount) followed by validatorList[i] = i: a list made
\* anew by every call
ReusedList(p, count) ==
    IF validatorList[p] # NilList /\ Len(validatorList[p]) = count
    THEN validatorList[p]
    ELSE [k \in 1..count |-> k - 1]
FreshList(p, count) == [k \in 1..count |-> k - 1]

\* int(hashSeed[j] + hashSeed[j+1] + hashSeed[j+2]): the sum is a byte sum
SwapNumWide(hashSeed, j) == hashSeed[j + 1] + hashSeed[j + 2] + hashSeed[j + 3]
SwapNumShifted(hashSeed, j) == ToByte(hashSeed[j + 2] + hashSeed[j + 3] + hashSeed[j + 4])
SwapNum(hashSeed, j) == ToByte(hashSeed[j + 1] + hashSeed[j + 2] + hashSeed[j + 3])

\* swapPos := swapNum%remaining + i
SwapPosNoOffset(hashSeed, i, j, count) == SwapNum(hashSeed, j) % (count - i)
SwapPos(hashSeed, i, j, count) ==
    LET swapNum == SwapNum(hashSeed, j)
        remaining == count - i
    IN  (swapNum % remaining) + i

\* validatorList[i], validatorList[swapPos] = validatorList[swapPos], validatorList[i]
OverwriteAt(list, i, swapPos) == [list EXCEPT ![i + 1] = list[swapPos + 1]]
SwapAt(list, i, swapPos) ==
    [list EXCEPT ![i + 1] = list[swapPos + 1], ![swapPos + 1] = list[i + 1]]

ShuffleIdle ==
    /\ spc = [p \in Callers |-> "idle"]
    /\ seed = [p \in Callers |-> 1]
    /\ validatorCount = [p \in Callers |-> 0]
    /\ validatorList = [p \in Callers |-> NilList]
    /\ si = [p \in Callers |-> 0]
    /\ sj = [p \in Callers |-> 0]
    /\ sret = [p \in Callers |-> NoResult]
    /\ ref = NoResult

\* A caller calls ShuffleIndices(s, count). validatorList[p] keeps the list the
\* caller's previous call made until this call makes its own.
ShuffleCall(p) ==
    /\ spc[p] \in {"idle", "done"}
    /\ \E s \in Seeds, count \in Counts :
          /\ seed' = [seed EXCEPT ![p] = s]
          /\ validatorCount' = [validatorCount EXCEPT ![p] = count]
    /\ spc' = [spc EXCEPT ![p] = "called"]
    /\ si' = [si EXCEPT ![p] = 0]
    /\ sj' = [sj EXCEPT ![p] = 0]
    /\ sret' = [sret EXCEPT ![p] = NoResult]
    /\ UNCHANGED <<validatorList, ref>>
    /\ UNCHANGED <<codecVars, chainVars, registryVars>>

\* The range check, and for an accepted count the making of the list.
ShuffleEnter(p) ==
    /\ spc[p] = "called"
    /\ IF ExceedsMax(validatorCount[p])
       THEN /\ sret' = [sret EXCEPT ![p] = [list |-> NilList, err |-> ShuffleError]]
            /\ spc' = [spc EXCEPT ![p] = "done"]
            /\ UNCHANGED validatorList
       ELSE /\ validatorList' =
                  [validatorList EXCEPT ![p] = FreshList(p, validatorCount[p])]
            /\ spc' = [spc EXCEPT ![p] = "sweep"]
            /\ UNCHANGED sret
    /\ UNCHANGED <<seed, validatorCount, si, sj, ref>>
    /\ UNCHANGED <<codecVars, chainVars, registryVars>>

\* One swap: the body of the inner loop at (i, j), then j += 3 and, when the
\* inner loop ends (j+3 >= len(hashSeed)), i++ with j back at 0.
ShuffleSwap(p) ==
    /\ spc[p] = "sweep"
    /\ si[p] < validatorCount[p] - 1
    /\ LET hashSeed == Sum256(seed[p])
           swapPos == SwapPos(hashSeed, si[p], sj[p], validatorCount[p])
       IN  validatorList' =
              [validatorList EXCEPT ![p] = SwapAt(validatorList[p], si[p], swapPos)]
    /\ IF (sj[p] + 3) + 3 < 32
       THEN /\ sj' = [sj EXCEPT ![p] = sj[p] + 3]
            /\ UNCHANGED si
       ELSE /\ sj' = [sj EXCEPT ![p] = 0]
            /\ si' = [si EXCEPT ![p] = si[p] + 1]
    /\ UNCHANGED <<spc, seed, validatorCount, sret, ref>>
    /\ UNCHANGED <<codecVars, chainVars, registryVars>>

\* return validatorList, nil. The caller may remember the completed call.
ShuffleReturn(p) ==
    /\ spc[p] = "sweep"
    /\ ~(si[p] < validatorCount[p] - 1)
    /\ sret' = [sret EXCEPT ![p] = [list |-> validatorList[p], err |-> Nil]]
    /\ spc' = [spc EXCEPT ![p] = "done"]
    /\ UNCHANGED <<seed, validatorCount, validatorList, si, sj, ref>>
    /\ UNCHANGED <<codecVars, chainVars, registryVars>>

\* An observer remembers one completed call, to compare later calls with it.
Remember(p) ==
    /\ spc[p] = "done"
    /\ ref = NoResult
    /\ ref' = [seed |-> seed[p], validatorCount |-> validatorCount[p], ret |-> sret[p],
               err |-> "remembered"]
    /\ UNCHANGED <<spc, seed, validatorCount, validatorList, si, sj, sret>>
    /\ UNCHANGED <<codecVars, chainVars, registryVars>>

NextShuffle ==
    \E p \in Callers :
        \/ ShuffleCall(p)
        \/ ShuffleEnter(p)
        \/ ShuffleSwap(p)
        \/ ShuffleReturn(p)
        \/ Remember(p)

-----------------------------------------------------------------------------
(* ChainService.                                                           *)

\* most calls of Start
MaxStarts == 2
\* largest slot number of a submitted block
MaxSlot == 2

\* the goroutines calling ProcessBlock, each with one block
BlockCallers == {1, 2}

\* one identity per updateChainState goroutine that Start can spawn
Workers == 1..MaxStarts

Hashes == {"h1", "h2"}
Blocks == [slotNumber : 0..MaxSlot, hash : Hashes]
NoBlock == [slotNumber |-> -1, hash |-> "none"]

\* The nil channel: the value NewChainService gives latestBeaconBlock. A send
\* to it and a receive from it block forever.
NilChan == "nil channel"

\* NewChainService: &ChainService{ctx, cancel, beaconDB, nil, web3Service, nil, nil}
\* with a context that is not cancelled; chain, latestBeaconBlock and
\* processedHashes are nil and no goroutine runs.
NewChainService ==
    /\ ctxDone = FALSE
    /\ chain = "nil"
    /\ latestBeaconBlock = NilChan
    /\ wpc = [w \in Workers |-> "none"]
    /\ bpc = [c \in BlockCallers |-> "idle"]
    /\ block = [c \in BlockCallers |-> NoBlock]
    /\ submitted = <<>>
    /\ processed = <<>>

\* Start: c.chain is set to what NewBeaconChain returned (nil after an
\* error) and a new updateChainState goroutine is spawned, whatever the
\* state of the service.
Start ==
    /\ \E w \in Workers :
          /\ wpc[w] = "none"
          /\ \A v \in Workers : v < w => wpc[v] # "none"
          /\ wpc' = [wpc EXCEPT ![w] = "select"]
    /\ \E beaconChain \in {"set", "nil"} : chain' = beaconChain
    /\ UNCHANGED <<ctxDone, latestBeaconBlock, bpc, block, submitted, processed>>
    /\ UNCHANGED <<codecVars, shuffleVars, registryVars>>

\* Stop: defer c.cancel()
Stop ==
    /\ ctxDone' = TRUE
    /\ UNCHANGED <<chain, latestBeaconBlock, wpc, bpc, block, submitted, processed>>
    /\ UNCHANGED <<codecVars, shuffleVars, registryVars>>

\* ProcessBlock(b) is called: the caller reaches the send c.latestBeaconBlock <- b
\* and waits there until a receiver takes the block.
ProcessBlock(c) ==
    /\ bpc[c] = "idle"
    /\ \E b \in Blocks :
          /\ block' = [block EXCEPT ![c] = b]
          /\ submitted' = Append(submitted, b)
    /\ bpc' = [bpc EXCEPT ![c] = "sending"]
    /\ UNCHANGED <<ctxDone, chain, latestBeaconBlock, wpc, processed>>
    /\ UNCHANGED <<codecVars, shuffleVars, registryVars>>

\* the callers waiting in the send
Senders == {c \in BlockCallers : bpc[c] = "sending"}

\* The cases of the select of updateChainState that can proceed: the receive
\* when the channel is not nil and a sender waits (the channel has no
\* buffer), the Done case when the context is cancelled.
ReadyCasesWithoutDone ==
    IF latestBeaconBlock # NilChan /\ Senders # {} THEN {"receive"} ELSE {}
ReadyCases ==
    (IF latestBeaconBlock # NilChan /\ Senders # {} THEN {"receive"} ELSE {})
    \cup (IF ctxDone THEN {"done"} ELSE {})

\* One iteration of the loop of updateChainState: select takes one of the
\* ready cases. The receive case takes the block of a waiting sender, whose
\* ProcessBlock then returns nil, and processes it; the Done case returns.
updateChainState(w) ==
    /\ wpc[w] = "select"
    /\ \E case \in ReadyCases :
          IF case = "receive"
          THEN \E c \in Senders :
                  /\ bpc' = [bpc EXCEPT ![c] = "returned"]
                  /\ processed' = Append(processed, block[c])
                  /\ UNCHANGED wpc
          ELSE /\ wpc' = [wpc EXCEPT ![w] = "exited"]
               /\ UNCHANGED <<bpc, processed>>
    /\ UNCHANGED <<ctxDone, chain, latestBeaconBlock, block, submitted>>
    /\ UNCHANGED <<codecVars, shuffleVars, registryVars>>

NextChain ==
    \/ Start
    \/ Stop
    \/ \E c \in BlockCallers : ProcessBlock(c)
    \/ \E w \in Workers : updateChainState(w)

-----------------------------------------------------------------------------
(* The service registry: RegisterService, as the node's register functions *)
(* and the registry's tests use it.                                        *)

\* most services of one type offered to the registry
MaxInstances == 2

\* the types of the services the node registers
ServiceKinds == {"p2p.Server", "powchain.Web3Service", "blockchain.ChainService",
                 "rbcsync.Service"}

\* a service is a pointer: its type and which value of that type it is
Services == [kind : ServiceKinds, instance : 1..MaxInstances]

NoService == [kind |-> "none", instance |-> 0]
RegisterError == "service already exists"

\* NewServiceRegistry: an empty map and an empty slice
NewServiceRegistry ==
    /\ services = [k \in ServiceKinds |-> NoService]
    /\ serviceTypes = <<>>
    /\ regArg = NoService
    /\ regRet = "none"

\* RegisterService: a service whose type is registered already is refused and
\* nothing changes; otherwise the service is stored under its type and the
\* type is appended to serviceTypes.
RegisterServiceOverwriting(service) ==
    /\ regArg' = service
    /\ services' = [services EXCEPT ![service.kind] = service]
    /\ serviceTypes' = Append(serviceTypes, service.kind)
    /\ regRet' = Nil
    /\ UNCHANGED <<codecVars, shuffleVars, chainVars>>
RegisterService(service) ==
    /\ regArg' = service
    /\ IF services[service.kind] # NoService
       THEN /\ regRet' = RegisterError
            /\ UNCHANGED <<services, serviceTypes>>
       ELSE /\ services' = [services EXCEPT ![service.kind] = service]
            /\ serviceTypes' = Append(serviceTypes, service.kind)
            /\ regRet' = Nil
    /\ UNCHANGED <<codecVars, shuffleVars, chainVars>>

NextRegistry == \E service \in Services : RegisterService(service)

-----------------------------------------------------------------------------
(* The specifications.                                                     *)

InitCodecSpec == InitCodec /\ ShuffleIdle /\ NewChainService /\ NewServiceRegistry
SpecCodec == InitCodecSpec /\ [][NextCodec]_vars

InitShuffleSpec == ShuffleIdle /\ CodecIdle /\ NewChainService /\ NewServiceRegistry
SpecShuffle == InitShuffleSpec /\ [][NextShuffle]_vars

InitChainSpec == NewChainService /\ CodecIdle /\ ShuffleIdle /\ NewServiceRegistry
SpecChain == InitChainSpec /\ [][NextChain]_vars

\* The Go scheduler runs every goroutine that can take a step: a worker whose
\* select has a ready case eventually takes one.
FairSpecChain == SpecChain /\ \A w \in Workers : WF_vars(updateChainState(w))

InitRegistrySpec == NewServiceRegistry /\ CodecIdle /\ ShuffleIdle /\ NewChainService
SpecRegistry == InitRegistrySpec /\ [][NextRegistry]_vars

-----------------------------------------------------------------------------
(* Properties of the codec.                                                *)

CeilDiv(n, d) == (n + d - 1) \div d

RECURSIVE SumSeq(_)
SumSeq(s) == IF s = <<>> THEN 0 ELSE Head(s) + SumSeq(Tail(s))

\* the serialized size the sizing law gives to a blob sequence
ExpectedSize(blobs) == SumSeq([i \in 1..Len(blobs) |-> 32 * CeilDiv(Len(blobs[i].data), 31)])

NonEmptyAll(blobs) == \A i \in 1..Len(blobs) : Len(blobs[i].data) > 0

RoundTripDone == cpc = "deserialized" /\ data = serialized.data

\* C1: round trip. When every blob given to Serialize has non-empty data,
\* Deserialize of the serialized stream returns no error and the same number
\* of blobs, in the same order, each with the same data bytes and the same
\* skipEvmExecution flag.
C1_RoundTrip ==
    (RoundTripDone /\ NonEmptyAll(rawBlobs)) =>
        /\ deserialized.err = Nil
        /\ Len(deserialized.blobs) = Len(rawBlobs)
        /\ \A i \in 1..Len(rawBlobs) :
              /\ deserialized.blobs[i].data = rawBlobs[i].data
              /\ deserialized.blobs[i].skipEvmExecution = rawBlobs[i].skipEvmExecution

\* A round trip of two blobs, the first flagged and three chunks long and the
\* second unflagged, has happened.
C1_Witness ==
    /\ RoundTripDone
    /\ Len(rawBlobs) = 2
    /\ Len(rawBlobs[1].data) = 63 /\ rawBlobs[1].skipEvmExecution
    /\ Len(rawBlobs[2].data) = 31 /\ ~rawBlobs[2].skipEvmExecution
    /\ Len(deserialized.blobs) = 2
    /\ deserialized.blobs[1].skipEvmExecution
    /\ ~deserialized.blobs[2].skipEvmExecution

\* the 35-byte scenario: 35 bytes of 'A', flag false
ScenarioBlob == [data |-> [k \in 1..35 |-> 65], skipEvmExecution |-> FALSE]
ScenarioStream ==
    <<0>> \o [k \in 1..31 |-> 65] \o <<4>> \o [k \in 1..4 |-> 65] \o [k \in 1..27 |-> 0]

\* C2: chunk layout. Every blob with non-empty data of length len is emitted
\* as ceil(len/31) chunks of 32 bytes: each non-terminal chunk is the byte 0
\* and 31 payload bytes, the terminal chunk is the indicator
\* terminalLength OR (0x80 if skipEvmExecution), with
\* terminalLength = len - 31*(chunkCount-1) in 1..31, then terminalLength
\* payload bytes, then 31 - terminalLength zero bytes; and 35 bytes of 'A'
\* unflagged give the 64 bytes of the scenario.
C2_ChunkLayout ==
    serialized # NoResult =>
        /\ \A b \in 1..Len(rawBlobs) :
              LET d == rawBlobs[b].data
                  len == Len(d)
                  n == CeilDiv(len, 31)
                  off == ExpectedSize(SubSeq(rawBlobs, 1, b - 1))
                  tl == len - 31 * (n - 1)
                  out == serialized.data
              IN  len > 0 =>
                    /\ tl \in 1..31
                    /\ Len(out) >= off + 32 * n
                    /\ \A c \in 0..(n - 2) :
                          /\ out[off + 32 * c + 1] = 0
                          /\ \A k \in 1..31 : out[off + 32 * c + 1 + k] = d[31 * c + k]
                    /\ LET base == off + 32 * (n - 1)
                       IN  /\ out[base + 1] =
                                BitOr(tl, IF rawBlobs[b].skipEvmExecution THEN 128 ELSE 0)
                           /\ \A k \in 1..tl : out[base + 1 + k] = d[31 * (n - 1) + k]
                           /\ \A k \in (tl + 1)..31 : out[base + 1 + k] = 0
        /\ rawBlobs = <<ScenarioBlob>> => serialized.data = ScenarioStream

\* A flagged blob whose length is a multiple of 31 has been serialized after
\* another blob.
C2_Witness ==
    /\ cpc = "serialized"
    /\ Len(rawBlobs) = 2
    /\ rawBlobs[1] = ScenarioBlob
    /\ Len(rawBlobs[2].data) = 62 /\ rawBlobs[2].skipEvmExecution
    /\ serialized.data[64 + 1] = 0
    /\ serialized.data[96 + 1] = 128 + 31

\* C3: sizing. For every blob sequence, empty sequences and empty blobs
\* included, the length of the serialized stream is the sum over the blobs of
\* 32 * ceil(len(data)/31), and so a multiple of 32.
C3_Sizing ==
    serialized # NoResult =>
        /\ Len(serialized.data) = ExpectedSize(rawBlobs)
        /\ Len(serialized.data) % 32 = 0

\* A sequence holding an empty blob and a blob of exactly one full chunk has
\* been serialized.
C3_Witness ==
    /\ cpc = "serialized"
    /\ Len(rawBlobs) = 2
    /\ Len(rawBlobs[1].data) = 0
    /\ Len(rawBlobs[2].data) = 31
    /\ Len(serialized.data) = 32

\* C4: Deserialize rejects an input whose length is not a multiple of 32 with
\* an error and no blobs.
C4_RejectsRemainder ==
    (cpc = "deserialized" /\ Len(data) % 32 # 0) =>
        (deserialized.err # Nil /\ deserialized.blobs = <<>>)

\* the stream is whole chunks and its last chunk is non-terminal (the low 5
\* bits of its indicator are zero)
EndsWithNonTerminal(d) ==
    /\ Len(d) >= 32
    /\ Len(d) % 32 = 0
    /\ BitAnd(d[Len(d) - 31], 31) = 0

\* C17: Deserialize returns a format error, and no blob list, for a stream of
\* whole chunks that ends with non-terminal chunks not followed by a terminal
\* chunk.
C17_RejectsDanglingChunks ==
    (cpc = "deserialized" /\ EndsWithNonTerminal(data)) =>
        (deserialized.err # Nil /\ deserialized.blobs = <<>>)

\* the blobs of the sequence that have data, in their order
WithoutEmpty(blobs) == SelectSeq(blobs, LAMBDA b : Len(b.data) > 0)

\* C20: zero-length blobs. The stream Serialize returns is the stream it
\* returns for the same sequence with the empty blobs removed, whatever their
\* skipEvmExecution flags, and the round trip returns exactly the blobs that
\* have data, in their order.
C20_EmptyBlobsVanish ==
    /\ cpc \in {"serialized", "deserialized"} =>
          /\ serialized.data = Serialize(WithoutEmpty(rawBlobs)).data
          /\ Len(serialized.data) = ExpectedSize(WithoutEmpty(rawBlobs))
    /\ RoundTripDone =>
          LET kept == WithoutEmpty(rawBlobs)
          IN  /\ deserialized.err = Nil
              /\ Len(deserialized.blobs) = Len(kept)
              /\ \A i \in 1..Len(kept) :
                    /\ deserialized.blobs[i].data = kept[i].data
                    /\ deserialized.blobs[i].skipEvmExecution = kept[i].skipEvmExecution

\* A round trip of a flagged empty blob followed by an unflagged blob of 35
\* bytes has returned the second blob alone, from a stream of two chunks.
C20_Witness ==
    /\ RoundTripDone
    /\ Len(rawBlobs) = 2
    /\ Len(rawBlobs[1].data) = 0 /\ rawBlobs[1].skipEvmExecution
    /\ Len(rawBlobs[2].data) = 35 /\ ~rawBlobs[2].skipEvmExecution
    /\ Len(serialized.data) = 64
    /\ Len(deserialized.blobs) = 1
    /\ deserialized.blobs[1].data = rawBlobs[2].data
    /\ ~deserialized.blobs[1].skipEvmExecution

\* Deserialize has returned, whatever stream it was given
DeserializeDone == cpc \in {"deserialized", "decoded"}

\* the chunks of the stream, 0-based, and the indicator of chunk c
WholeChunks(d) == Len(d) \div 32
IndicatorOf(d, c) == d[32 * c + 1]

\* the terminal chunks of the stream: low 5 bits of the indicator not zero
TerminalChunks(d) == {c \in 0..(WholeChunks(d) - 1) : IndicatorOf(d, c) % 32 # 0}

\* the k-th terminal chunk (k from 1), and the terminal chunk before chunk c
\* (-1 when there is none)
NthTerminal(d, k) ==
    CHOOSE c \in TerminalChunks(d) :
        Cardinality({b \in TerminalChunks(d) : b <= c}) = k
PreviousTerminal(d, c) ==
    IF \E b \in TerminalChunks(d) : b < c
    THEN CHOOSE b \in TerminalChunks(d) :
             b < c /\ \A a \in TerminalChunks(d) : a < c => a <= b
    ELSE -1

\* payload bytes 1..n of chunk c
PayloadOf(d, c, n) == [k \in 1..n |-> d[32 * c + 1 + k]]

\* C21: the two passes agree. The first pass records one descriptor per
\* chunk whose indicator has non-zero low 5 bits, in stream order, with the
\* low 5 bits as terminalLength and the number of zero-low-5-bits chunks
\* since the previous terminal chunk as numNonTerminalChunks; the second pass
\* returns one blob per descriptor, in that order, of
\* 31*numNonTerminalChunks + terminalLength bytes (the payloads of those
\* chunks and the first terminalLength payload bytes of the terminal chunk),
\* flagged with bit 7 of the terminal chunk's indicator.
C21_PassesAgree ==
    DeserializeDone =>
        LET n == Cardinality(TerminalChunks(data))
            descriptors == ScanChunks(data, 0, WholeChunks(data), <<>>, 0)
        IN  /\ Len(descriptors) = n
            /\ Len(deserialized.blobs) = n
            /\ \A k \in 1..n :
                  LET c == NthTerminal(data, k)
                      count == c - PreviousTerminal(data, c) - 1
                      t == IndicatorOf(data, c) % 32
                      blob == deserialized.blobs[k]
                  IN  /\ descriptors[k].numNonTerminalChunks = count
                      /\ descriptors[k].terminalLength = t
                      /\ Len(blob.data) = 31 * count + t
                      /\ \A b \in 0..(count - 1) :
                            SubSeq(blob.data, 31 * b + 1, 31 * b + 31)
                                = PayloadOf(data, c - count + b, 31)
                      /\ SubSeq(blob.data, 31 * count + 1, 31 * count + t)
                            = PayloadOf(data, c, t)
                      /\ blob.skipEvmExecution = (IndicatorOf(data, c) >= 128)

\* A received stream of three chunks with indicators 0x60, 0x63, 0x83 has
\* been decoded into a blob of 34 bytes, unflagged, and a blob of 3 bytes,
\* flagged.
C21_Witness ==
    /\ cpc = "decoded"
    /\ WholeChunks(data) = 3
    /\ IndicatorOf(data, 0) = 96 /\ IndicatorOf(data, 1) = 99 /\ IndicatorOf(data, 2) = 131
    /\ Len(deserialized.blobs) = 2
    /\ Len(deserialized.blobs[1].data) = 34 /\ ~deserialized.blobs[1].skipEvmExecution
    /\ Len(deserialized.blobs[2].data) = 3 /\ deserialized.blobs[2].skipEvmExecution

\* C27: Deserialize is total and in-bounds. For every stream, whatever its
\* length and its indicator bytes, every index the two passes read is below
\* 32 * floor(len/32), the cursor of the second pass ends at or below that
\* bound, and the call returns a nil error: it does not panic.
C27_InBounds ==
    DeserializeDone =>
        LET bound == 32 * WholeChunks(data)
            descriptors == ScanChunks(data, 0, WholeChunks(data), <<>>, 0)
            reads == FirstPassReads(WholeChunks(data))
                        \cup SecondPassReads(descriptors, 1, 0)
        IN  /\ \A r \in reads : 0 <= r[1] /\ r[1] <= r[2] /\ r[2] <= bound
            /\ FinalCurrentByte(descriptors, 1, 0) <= bound
            /\ deserialized.err = Nil

\* A received stream of 98 bytes has been decoded: two chunks with zero low 5
\* bits, a last chunk whose indicator 0xFF gives the longest terminal length,
\* and two bytes that fill no chunk. The blob returned ends with the last
\* byte of the last chunk.
C27_Witness ==
    /\ cpc = "decoded"
    /\ Len(data) = 98
    /\ IndicatorOf(data, 0) = 96 /\ IndicatorOf(data, 1) = 128 /\ IndicatorOf(data, 2) = 255
    /\ deserialized.err = Nil
    /\ Len(deserialized.blobs) = 1
    /\ Len(deserialized.blobs[1].data) = 93
    /\ deserialized.blobs[1].data[93] = data[96]

-----------------------------------------------------------------------------
(* Properties of ShuffleIndices.                                           *)

\* list holds every integer of [0, n) exactly once
IsPermutation(list, n) ==
    /\ Len(list) = n
    /\ \A v \in 0..(n - 1) : Cardinality({k \in 1..n : list[k] = v}) = 1

\* C5: permutation. For every seed and every validatorCount in
\* 0..MaxValidators the list is a permutation of [0, validatorCount) after
\* every single swap, and the returned list is that permutation.
C5_Permutation ==
    \A p \in Callers :
        /\ spc[p] = "sweep" => IsPermutation(validatorList[p], validatorCount[p])
        /\ (spc[p] = "done" /\ validatorCount[p] <= MaxValidators) =>
              IsPermutation(sret[p].list, validatorCount[p])

\* A call with validatorCount = MaxValidators has returned a list that is not
\* the identity.
C5_Witness ==
    \E p \in Callers :
        /\ spc[p] = "done"
        /\ validatorCount[p] = MaxValidators
        /\ sret[p].err = Nil
        /\ sret[p].list # [k \in 1..MaxValidators |-> k - 1]

\* C6: range rejection. A call with validatorCount > MaxValidators returns an
\* error and a nil list without ever entering the shuffle loops; a call with
\* validatorCount <= MaxValidators returns a nil error.
C6_RangeRejection ==
    \A p \in Callers :
        /\ validatorCount[p] > MaxValidators => spc[p] # "sweep"
        /\ (spc[p] = "done" /\ validatorCount[p] > MaxValidators) =>
              /\ sret[p].err # Nil
              /\ sret[p].list = NilList
              /\ si[p] = 0 /\ sj[p] = 0
        /\ (spc[p] = "done" /\ validatorCount[p] <= MaxValidators) =>
              sret[p].err = Nil

\* A call with validatorCount = MaxValidators + 1 has returned, while the other
\* caller has had a call with validatorCount = MaxValidators accepted.
C6_Witness ==
    \E p, q \in Callers :
        /\ spc[p] = "done"
        /\ validatorCount[p] = MaxValidators + 1
        /\ sret[p].err = ShuffleError
        /\ spc[q] = "done"
        /\ validatorCount[q] = MaxValidators
        /\ sret[q].err = Nil

SameArguments(p, r) == seed[p] = r.seed /\ validatorCount[p] = r.validatorCount

\* C7: determinism. A completed call returns what any earlier completed call
\* with the same seed and validatorCount returned, and two callers whose
\* completed calls have the same arguments hold equal results, whatever calls
\* ran in between or at the same time.
C7_Determinism ==
    /\ ref # NoResult =>
          \A p \in Callers :
              (spc[p] = "done" /\ SameArguments(p, ref)) => sret[p] = ref.ret
    /\ \A p, q \in Callers :
          (spc[p] = "done" /\ spc[q] = "done" /\ seed[p] = seed[q]
              /\ validatorCount[p] = validatorCount[q]) => sret[p] = sret[q]

\* A call was remembered, the caller that made it has since completed a call
\* with other arguments and then one with the remembered arguments again,
\* while the other caller is in the middle of a shuffle.
C7_Witness ==
    /\ ref # NoResult
    /\ ref.validatorCount = MaxValidators
    /\ ref.ret.list # [k \in 1..MaxValidators |-> k - 1]
    /\ \E p, q \in Callers :
          /\ spc[p] = "done" /\ SameArguments(p, ref) /\ sret[p] = ref.ret
          /\ spc[q] = "sweep" /\ si[q] = 1 /\ sj[q] = 3

\* callers p and q have each completed an accepted call, with the same
\* validatorCount
SameCountDone(p, q) ==
    /\ spc[p] = "done" /\ spc[q] = "done"
    /\ sret[p].err = Nil /\ sret[q].err = Nil
    /\ validatorCount[p] = validatorCount[q]

SwapStep(p) == spc[p] = "sweep" /\ (si'[p] # si[p] \/ sj'[p] # sj[p])

\* C22: swap range. A swap of round i exchanges position i with position
\* swapPos = i + (swapNum mod (count - i)), where 0 <= i <= count-2 and
\* i <= swapPos <= count-1; the list keeps its length and no entry at a
\* position below i changes, in round i or in any later round.
C22_SwapRange ==
    [][\A p \in Callers :
          SwapStep(p) =>
              LET i == si[p]
                  count == validatorCount[p]
                  before == validatorList[p]
                  after == validatorList'[p]
                  hashSeed == Sum256(seed[p])
                  swapNum == (hashSeed[sj[p] + 1] + hashSeed[sj[p] + 2]
                                 + hashSeed[sj[p] + 3]) % 256
                  swapPos == i + (swapNum % (count - i))
              IN  /\ 0 <= i /\ i <= count - 2
                  /\ i <= swapPos /\ swapPos <= count - 1
                  /\ Len(after) = count
                  /\ after[i + 1] = before[swapPos + 1]
                  /\ after[swapPos + 1] = before[i + 1]
                  /\ \A k \in 0..(count - 1) :
                        (k # i /\ k # swapPos) => after[k + 1] = before[k + 1]
                  /\ \A k \in 0..(i - 1) : after[k + 1] = before[k + 1]
                  /\ si'[p] >= i]_vars

\* A call with validatorCount = MaxValidators is in its last round and has
\* done swaps in it; the entries below the round's position are not all where
\* they started.
C22_Witness ==
    \E p \in Callers :
        /\ spc[p] = "sweep"
        /\ validatorCount[p] = MaxValidators
        /\ si[p] = MaxValidators - 2
        /\ sj[p] >= 3
        /\ \E k \in 0..(si[p] - 1) : validatorList[p][k + 1] # k

\* the sum of the three bytes of the window at offset j, not truncated
WideSum(hashSeed, j) == hashSeed[j + 1] + hashSeed[j + 2] + hashSeed[j + 3]

\* C23: swapNum arithmetic. For the window of every swap, of every digest,
\* swapNum is the three-byte sum modulo 256, between 0 and 255, and the swap
\* uses that value: position i is exchanged with
\* i + ((sum mod 256) mod (count - i)).
C23_SwapNumIsByteSum ==
    [][\A p \in Callers :
          SwapStep(p) =>
              LET hashSeed == Sum256(seed[p])
                  i == si[p]
                  count == validatorCount[p]
                  swapNum == WideSum(hashSeed, sj[p]) % 256
              IN  /\ SwapNum(hashSeed, sj[p]) = swapNum
                  /\ 0 <= swapNum /\ swapNum <= 255
                  /\ validatorList'[p] =
                        SwapAt(validatorList[p], i, i + (swapNum % (count - i)))]_vars

\* A swap has just been done for a window whose three bytes sum to more than
\* 255, in a round where the truncated sum and the whole sum pick different
\* positions.
C23_Witness ==
    \E p \in Callers :
        /\ spc[p] = "sweep"
        /\ sj[p] >= 3
        /\ si[p] < validatorCount[p] - 1
        /\ LET sum == WideSum(Sum256(seed[p]), sj[p] - 3)
               remaining == validatorCount[p] - si[p]
           IN  /\ sum > 255
               /\ (sum % 256) % remaining # sum % remaining

\* the digest with its bytes 30 and 31 set to zero
ZeroTail(hashSeed) == [hashSeed EXCEPT ![31] = 0, ![32] = 0]

\* C26: window sweep. Every round visits the windows at offsets 0, 3, ..., 27
\* of the one digest, in that order, ten swaps a round, and every swap is the
\* swap that the digest with bytes 30 and 31 zeroed gives: those two bytes
\* are never read, and digests that agree on bytes 0..29 give the same
\* permutation.
C26_WindowSweep ==
    [][\A p \in Callers :
          SwapStep(p) =>
              LET hashSeed == Sum256(seed[p])
                  i == si[p]
                  j == sj[p]
                  count == validatorCount[p]
              IN  /\ j \in {3 * w : w \in 0..9}
                  /\ IF j < 27
                     THEN sj'[p] = j + 3 /\ si'[p] = i
                     ELSE sj'[p] = 0 /\ si'[p] = i + 1
                  /\ seed'[p] = seed[p]
                  /\ validatorList'[p] =
                        SwapAt(validatorList[p], i, SwapPos(ZeroTail(hashSeed), i, j, count))]_vars

\* A call whose digest has non-zero bytes 30 and 31 has finished its first
\* round, ten swaps, and begins the second.
C26_Witness ==
    \E p \in Callers :
        /\ spc[p] = "sweep"
        /\ validatorCount[p] = MaxValidators
        /\ si[p] = 1 /\ sj[p] = 0
        /\ Sum256(seed[p])[31] # 0 /\ Sum256(seed[p])[32] # 0
        /\ validatorList[p] # [k \in 1..MaxValidators |-> k - 1]

-----------------------------------------------------------------------------
(* Properties of ChainService.                                             *)

WorkerRunning == \E w \in Workers : wpc[w] = "select"

\* C8: FIFO state evolution. With a worker running and the service not
\* cancelled, blocks B1 and B2 submitted in that order are processed, B1
\* first and B2 next.
C8_FifoProcessing ==
    (Len(submitted) >= 2 /\ WorkerRunning /\ ~ctxDone)
        ~> (ctxDone \/ (Len(processed) >= 2
                          /\ processed[1] = submitted[1]
                          /\ processed[2] = submitted[2]))

\* C9: single worker. After any sequence of Start, Stop and ProcessBlock calls
\* at most one updateChainState goroutine is alive.
C9_SingleWorker == Cardinality({w \in Workers : wpc[w] = "select"}) <= 1

\* C10: ProcessBlock enqueues. A ProcessBlock call on a started service that
\* is not cancelled returns, with its block processed by the worker.
C10_ProcessBlockReturns ==
    \A c \in BlockCallers :
        (bpc[c] = "sending" /\ WorkerRunning /\ ~ctxDone)
            ~> (ctxDone \/ (bpc[c] = "returned"
                              /\ \E k \in 1..Len(processed) : processed[k] = block[c]))

\* The lifecycle states of the service: Idle (constructed, no worker was ever
\* started), Running (an updateChainState goroutine is alive), Stopped (every
\* worker that was started has exited, which it does only on cancellation).
Idle == \A w \in Workers : wpc[w] = "none"
Running == \E w \in Workers : wpc[w] = "select"
Stopped == ~Idle /\ ~Running

\* C15: one-way lifecycle. The service moves only Idle -> Running -> Stopped:
\* a Stopped service stays Stopped, a Running service goes nowhere but to
\* Stopped, no service returns to Idle, and once the context is cancelled no
\* further block is processed.
C15_OneWayLifecycle ==
    [][/\ Idle => (Idle' \/ Running')
       /\ Running => (Running' \/ Stopped')
       /\ Stopped => Stopped'
       /\ ctxDone => processed' = processed]_vars

\* C25: worker termination. Under weak fairness a worker that is alive when
\* the context is cancelled exits, whether or not callers are submitting
\* blocks; an exited worker stays exited, and with no worker alive no block is
\* processed.
C25_WorkerTerminates ==
    /\ \A w \in Workers : (ctxDone /\ wpc[w] = "select") ~> (wpc[w] = "exited")
    /\ [][/\ \A w \in Workers : wpc[w] = "exited" => wpc'[w] = "exited"
          /\ ~Running => processed' = processed]_vars

\* Stop has been called on a started service, its worker has exited, and a
\* caller that submitted a block is still in ProcessBlock.
C25_Witness ==
    /\ ctxDone
    /\ \E w \in Workers : wpc[w] = "exited"
    /\ ~Running
    /\ Senders # {}

\* C28: ProcessBlock cannot block forever. A ProcessBlock call that waits to
\* hand over its block while the context is cancelled, or while no worker is
\* alive (never started, or exited), returns.
C28_ProcessBlockNeverStuck ==
    \A c \in BlockCallers :
        (bpc[c] = "sending" /\ (ctxDone \/ ~Running)) ~> (bpc[c] = "returned")

-----------------------------------------------------------------------------
(* Properties of the service registry.                                     *)

RegisteredKinds == {k \in ServiceKinds : services[k] # NoService}

\* serviceTypes holds every registered type once and nothing else, and every
\* registered service is stored under its own type
OnePerKind ==
    /\ Len(serviceTypes) = Cardinality(RegisteredKinds)
    /\ {serviceTypes[i] : i \in 1..Len(serviceTypes)} = RegisteredKinds
    /\ \A k \in RegisteredKinds : services[k].kind = k

=============================================================================
